---- MODULE Spec2Model ----
\* Model of oci.py: the terraform apply retry driver (run_terraform_apply), the
\* variables-file editor (update_main_tf), the destroy helper (cleanup_resources)
\* and the entry point (main).
\*
\* Texts (file contents, zone names, captured error streams) are sequences of
\* one-character strings, so that the regular-expression substitution, the
\* lower-casing and the substring tests are computed as the code computes them.
EXTENDS Integers, Sequences, FiniteSets, TLC

VARIABLES args, mpc, exit_code, final_log, run, twin

vars == <<args, mpc, exit_code, final_log, run, twin>>

----------------------------------------------------------------------------
\* Bounds of the model.

\* --max-attempts ranges over -1..MaxAttempts
MaxAttempts == 4
\* --availability-domains lists have 1..MaxZones entries
MaxZones == 3

----------------------------------------------------------------------------
\* Text helpers.

Quote == "\""
NL == <<"\n">>

\* Python's \s for the characters that occur in the modelled texts
IsSpace(c) == c \in {" ", "\t", "\n", "\r"}

UpperAlpha ==
    <<"A", "B", "C", "D", "E", "F", "G", "H", "I", "J", "K", "L", "M",
      "N", "O", "P", "Q", "R", "S", "T", "U", "V", "W", "X", "Y", "Z">>
LowerAlpha ==
    <<"a", "b", "c", "d", "e", "f", "g", "h", "i", "j", "k", "l", "m",
      "n", "o", "p", "q", "r", "s", "t", "u", "v", "w", "x", "y", "z">>

LowerChar(c) ==
    IF \E i \in 1..Len(UpperAlpha) : UpperAlpha[i] = c
    THEN LowerAlpha[CHOOSE i \in 1..Len(UpperAlpha) : UpperAlpha[i] = c]
    ELSE c

\* str.lower()
Lower(s) == [i \in 1..Len(s) |-> LowerChar(s[i])]

\* needle in hay
Contains(needle, hay) ==
    \E i \in 1..(Len(hay) - Len(needle) + 1) :
        SubSeq(hay, i, i + Len(needle) - 1) = needle

\* str.strip() != ''
NonBlank(s) == \E i \in 1..Len(s) : ~IsSpace(s[i])

----------------------------------------------------------------------------
\* The pattern  availability_domain\s*=\s*"[^"]*"  and its replacement.

\* 'availability_domain'
ZoneKey ==
    <<"a", "v", "a", "i", "l", "a", "b", "i", "l", "i", "t", "y", "_",
      "d", "o", "m", "a", "i", "n">>

RECURSIVE SkipSpace(_, _)
SkipSpace(s, i) ==
    IF i <= Len(s) /\ IsSpace(s[i]) THEN SkipSpace(s, i + 1) ELSE i

RECURSIVE SkipNonQuote(_, _)
SkipNonQuote(s, i) ==
    IF i <= Len(s) /\ s[i] # Quote THEN SkipNonQuote(s, i + 1) ELSE i

\* Position of the opening quote of a match that starts at i, 0 if none starts there.
MatchQuote(s, i) ==
    IF i + Len(ZoneKey) - 1 > Len(s) \/ SubSeq(s, i, i + Len(ZoneKey) - 1) # ZoneKey
    THEN 0
    ELSE LET j == SkipSpace(s, i + Len(ZoneKey)) IN
         IF j > Len(s) \/ s[j] # "=" THEN 0
         ELSE LET k == SkipSpace(s, j + 1) IN
              IF k > Len(s) \/ s[k] # Quote THEN 0
              ELSE IF SkipNonQuote(s, k + 1) > Len(s) THEN 0 ELSE k

\* Position of the closing quote of the match that starts at i (MatchQuote(s, i) > 0).
MatchClose(s, i) == SkipNonQuote(s, MatchQuote(s, i) + 1)

\* f'availability_domain = "{availability_domain}"'
Replacement(availability_domain) ==
    ZoneKey \o <<" ", "=", " ", Quote>> \o availability_domain \o <<Quote>>

\* re.sub(pattern, replacement, content): leftmost non-overlapping matches
RECURSIVE SubFrom(_, _, _)
SubFrom(content, i, repl) ==
    IF i > Len(content) THEN <<>>
    ELSE IF MatchQuote(content, i) > 0
         THEN repl \o SubFrom(content, MatchClose(content, i) + 1, repl)
         ELSE <<content[i]>> \o SubFrom(content, i + 1, repl)

re_sub(availability_domain, content) ==
    SubFrom(content, 1, Replacement(availability_domain))

\* re.search(pattern, content): start of the leftmost match, 0 when there is none
re_search(content) ==
    IF \E i \in 1..Len(content) : MatchQuote(content, i) > 0
    THEN CHOOSE i \in 1..Len(content) :
            /\ MatchQuote(content, i) > 0
            /\ \A j \in 1..(i - 1) : MatchQuote(content, j) = 0
    ELSE 0

\* match.group(1) of the match that starts at i
Group1(content, i) ==
    SubSeq(content, MatchQuote(content, i) + 1, MatchClose(content, i) - 1)

----------------------------------------------------------------------------
\* Inputs: zone names, zone lists, files of the configuration directory and
\* captured error streams.

Digits == <<"1", "2", "3", "4", "5", "6", "7", "8", "9">>

\* "AD-<i>"
Zone(i) == <<"A", "D", "-", Digits[i]>>

\* k zones in order, starting with zone s
ZoneList(k, s) == [i \in 1..k |-> Zone(((s + i - 2) % k) + 1)]

ZoneLists == {ZoneList(k, s) : k \in 1..MaxZones, s \in {1, MaxZones}}

File(text) == [exists |-> TRUE, text |-> text]
Absent == [exists |-> FALSE, text |-> <<>>]

Assign(key, gap, value) == key \o gap \o <<"=">> \o gap \o <<Quote>> \o value \o <<Quote>> \o NL

\* 'shape = "x"\n'
ShapeLine == Assign(<<"s", "h", "a", "p", "e">>, <<" ">>, <<"x">>)
\* 'backup_'
BackupPrefix == <<"b", "a", "c", "k", "u", "p", "_">>
\* a value that is not one of the zones
OldValue == <<"A", "D", "-", "0">>

\* 'availability_domain = "AD-1"\n'
TfvarsPlain == Assign(ZoneKey, <<" ">>, Zone(1))
\* 'shape = "x"\navailability_domain="AD-0"\n'
TfvarsTight == ShapeLine \o Assign(ZoneKey, <<>>, OldValue)
\* 'availability_domain = "AD-0"\nbackup_availability_domain = "AD-0"\n'
TfvarsSuffix == Assign(ZoneKey, <<" ">>, OldValue) \o Assign(BackupPrefix \o ZoneKey, <<" ">>, OldValue)
\* 'shape = "x"\n'
TfvarsNoKey == ShapeLine
\* 'backup_availability_domain = "AD-0"\n'
TfvarsBackupOnly == Assign(BackupPrefix \o ZoneKey, <<" ">>, OldValue)
\* 'availability_domain = " "\n'
TfvarsBlank == Assign(ZoneKey, <<" ">>, <<" ">>)
\* 'resource {\n  availability_domain = "AD-0"\n}\n'
MainTfKey ==
    <<"r", "e", "s", "o", "u", "r", "c", "e", " ", "{", "\n", " ", " ">>
    \o Assign(ZoneKey, <<" ">>, OldValue) \o <<"}", "\n">>
\* 'resource {\n}\n'
MainTfNoKey == <<"r", "e", "s", "o", "u", "r", "c", "e", " ", "{", "\n", "}", "\n">>

Disk(dir, tfvars, main_tf) == [dir_exists |-> dir, tfvars |-> tfvars, main_tf |-> main_tf]

\* The configuration directories the runs start from.
Disks ==
    { Disk(FALSE, Absent, Absent),
      Disk(TRUE, Absent, Absent),
      Disk(TRUE, Absent, File(MainTfKey)),
      Disk(TRUE, File(TfvarsPlain), Absent),
      Disk(TRUE, File(TfvarsPlain), File(MainTfKey)),
      Disk(TRUE, File(TfvarsTight), File(MainTfNoKey)),
      Disk(TRUE, File(TfvarsSuffix), Absent),
      Disk(TRUE, File(TfvarsNoKey), File(MainTfKey)),
      Disk(TRUE, File(TfvarsNoKey), File(MainTfNoKey)),
      Disk(TRUE, File(TfvarsBackupOnly), File(MainTfKey)),
      Disk(TRUE, File(TfvarsBlank), File(MainTfKey)) }

\* 'out of host capacity'
MarkerCapacity ==
    <<"o", "u", "t", " ", "o", "f", " ", "h", "o", "s", "t", " ",
      "c", "a", "p", "a", "c", "i", "t", "y">>
\* 'internalerror'
MarkerInternal ==
    <<"i", "n", "t", "e", "r", "n", "a", "l", "e", "r", "r", "o", "r">>

\* 'Error: Out of host capacity.'
ErrCapacity ==
    <<"E", "r", "r", "o", "r", ":", " ", "O", "u", "t", " ", "o", "f", " ", "h", "o", "s", "t",
      " ", "c", "a", "p", "a", "c", "i", "t", "y", ".">>
\* 'OUT OF HOST CAPACITY'
ErrCapacityUpper ==
    <<"O", "U", "T", " ", "O", "F", " ", "H", "O", "S", "T", " ",
      "C", "A", "P", "A", "C", "I", "T", "Y">>
\* '500-InternalError'
ErrInternal ==
    <<"5", "0", "0", "-", "I", "n", "t", "e", "r", "n", "a", "l", "E", "r", "r", "o", "r">>
\* 'quota exceeded'
ErrQuota ==
    <<"q", "u", "o", "t", "a", " ", "e", "x", "c", "e", "e", "d", "e", "d">>
\* 'Internal Error'
ErrInternalSpaced ==
    <<"I", "n", "t", "e", "r", "n", "a", "l", " ", "E", "r", "r", "o", "r">>

\* Error streams, each labelled by whether it was written with a recoverable
\* marker in it (in some letter case).
ErrStreams ==
    { [text |-> ErrCapacity, marked |-> TRUE],
      [text |-> ErrCapacityUpper, marked |-> TRUE],
      [text |-> ErrInternal, marked |-> TRUE],
      [text |-> ErrQuota, marked |-> FALSE],
      [text |-> ErrInternalSpaced, marked |-> FALSE],
      [text |-> <<>>, marked |-> FALSE] }

\* What subprocess.run of the apply/plan command can do: complete with an exit
\* code and an error stream, exceed the time limit, or fail to execute.
Completed(returncode, err) ==
    [kind |-> "completed", returncode |-> returncode, stderr |-> err.text, marked |-> err.marked]
ApplyOutcomes ==
    { Completed(0, [text |-> <<>>, marked |-> FALSE]) }
    \cup { Completed(1, e) : e \in ErrStreams }
    \cup { [kind |-> k, returncode |-> 0, stderr |-> <<>>, marked |-> FALSE] : k \in {"timeout", "error"} }

\* What subprocess.run of the destroy command can do.
DestroyOutcomes == {"ok", "failed", "timeout", "error"}

----------------------------------------------------------------------------
\* The state of one run: the configuration directory on disk, the frame of
\* run_terraform_apply, the external commands run so far (trace) and the last
\* line written to the log.

Event(op, n, tag) == [op |-> op, n |-> n, tag |-> tag]

Log(d, line) == [d EXCEPT !.log = line]

Return(d, value) == [d EXCEPT !.pc = "returned", !.ret = value]

\* The process before main calls the driver.
Idle(disk) ==
    [ pc |-> "idle", ret |-> FALSE, exc |-> FALSE,
      dir_exists |-> disk.dir_exists, tfvars |-> disk.tfvars, main_tf |-> disk.main_tf,
      max_attempts |-> 0, availability_domains |-> <<>>,
      no_cleanup |-> FALSE, plan_only |-> FALSE,
      attempt |-> 0, current_ad |-> <<>>,
      result |-> [returncode |-> 0, stderr |-> <<>>],
      zones_used |-> <<>>, trace |-> <<>>, log |-> "" ]

\* check_availability_domain_in_tfvars that accepts a blank value
check_availability_domain_in_tfvars_AcceptsBlank(d) ==
    IF ~d.tfvars.exists THEN FALSE
    ELSE re_search(d.tfvars.text) # 0

\* check_availability_domain_in_tfvars(config_dir)
check_availability_domain_in_tfvars(d) ==
    IF ~d.tfvars.exists THEN FALSE
    ELSE LET m == re_search(d.tfvars.text) IN
         m # 0 /\ NonBlank(Group1(d.tfvars.text, m))

\* update_main_tf(config_dir, availability_domain, logger)
update_main_tf(d, availability_domain) ==
    LET tf == IF d.tfvars.exists THEN re_sub(availability_domain, d.tfvars.text) ELSE <<>>
    IN  IF d.tfvars.exists /\ tf # d.tfvars.text
        THEN Log([d EXCEPT !.tfvars = File(tf)], "Updated terraform.tfvars")
        ELSE IF ~d.main_tf.exists
             THEN Log(d, "main.tf not found, skipping AD update")
             ELSE LET mt == re_sub(availability_domain, d.main_tf.text) IN
                  IF mt # d.main_tf.text
                  THEN Log([d EXCEPT !.main_tf = File(mt)], "Updated main.tf")
                  ELSE Log(d, "Could not find availability_domain line in main.tf")

\* cleanup_resources without its handler of unexpected errors: the error of the
\* destroy command reaches the caller.
cleanup_resources_Raises(d, outcome) ==
    LET ran == [d EXCEPT !.trace = Append(@, Event("destroy", d.attempt, ""))]
    IN  IF outcome = "error" THEN [ran EXCEPT !.exc = TRUE]
        ELSE Log([ran EXCEPT !.exc = FALSE], "Destroy finished")

\* cleanup_resources(config_dir, auto_approve, logger): runs terraform destroy;
\* every outcome is logged and none is raised (exc stays FALSE).
cleanup_resources(d, outcome) ==
    LET ran == [d EXCEPT !.trace = Append(@, Event("destroy", d.attempt, "")), !.exc = FALSE]
    IN  CASE outcome = "ok"      -> Log(ran, "Successfully cleaned up all resources")
          [] outcome = "failed"  -> Log(ran, "Failed to clean up resources")
          [] outcome = "timeout" -> Log(ran, "Terraform destroy timed out")
          [] OTHER               -> Log(ran, "Unexpected error during resource cleanup")

\* cmd[1]: 'plan' if plan_only else 'apply'
Operation(d) == IF d.plan_only THEN "plan" ELSE "apply"

\* IsRecoverable without the lower-casing of the error stream
IsRecoverable_CaseSensitive(stderr) ==
    Contains(MarkerCapacity, stderr) \/ Contains(MarkerInternal, stderr)

\* IsRecoverable with 'internal' as the second marker
IsRecoverable_LooseMarker(stderr) ==
    LET error_output == Lower(stderr)
    IN  Contains(MarkerCapacity, error_output) \/ Contains(SubSeq(MarkerInternal, 1, 8), error_output)

\* 'out of host capacity' in error_output or 'internalerror' in error_output,
\* with error_output = result.stderr.lower()
IsRecoverable(stderr) ==
    LET error_output == Lower(stderr)
    IN  Contains(MarkerCapacity, error_output) \/ Contains(MarkerInternal, error_output)

\* Entry without the test of the configuration directory
Entry_NoDirCheck(d) == [d EXCEPT !.attempt = 1, !.pc = "loop"]

\* run_terraform_apply, up to the loop: the directory check and attempt = 1
Entry(d) ==
    IF ~d.dir_exists
    THEN Return(Log(d, "Terraform config directory does not exist"), FALSE)
    ELSE [d EXCEPT !.attempt = 1, !.pc = "loop"]

\* SelectZone with the index taken from attempt instead of attempt - 1
SelectZone_OffByOne(availability_domains, attempt) ==
    availability_domains[(attempt % Len(availability_domains)) + 1]

\* zones[(attempt - 1) % len(zones)]; Python raises ZeroDivisionError on an empty list
SelectZone(availability_domains, attempt) ==
    availability_domains[((attempt - 1) % Len(availability_domains)) + 1]

\* LoopHead whose loop test lets one more attempt through
LoopHead_OneMore(d) ==
    IF d.attempt <= d.max_attempts + 1
    THEN IF Len(d.availability_domains) = 0
         THEN [d EXCEPT !.pc = "crashed", !.log = "ZeroDivisionError"]
         ELSE LET current_ad == SelectZone(d.availability_domains, d.attempt)
                  e == update_main_tf(d, current_ad)
              IN  [e EXCEPT !.pc = "run", !.current_ad = current_ad,
                            !.zones_used = Append(@, current_ad),
                            !.trace = Append(@, Event("edit", d.attempt, e.log))]
    ELSE [d EXCEPT !.pc = "exhausted"]

\* The loop head: the loop test, the zone selection and the edit of the files.
LoopHead(d) ==
    IF d.attempt <= d.max_attempts
    THEN IF Len(d.availability_domains) = 0
         THEN [d EXCEPT !.pc = "crashed", !.log = "ZeroDivisionError"]
         ELSE LET current_ad == SelectZone(d.availability_domains, d.attempt)
                  e == update_main_tf(d, current_ad)
              IN  [e EXCEPT !.pc = "run", !.current_ad = current_ad,
                            !.zones_used = Append(@, current_ad),
                            !.trace = Append(@, Event("edit", d.attempt, e.log))]
    ELSE [d EXCEPT !.pc = "exhausted"]

\* OnSuccess that leaves the loop instead of returning
OnSuccess_Break(d) == [Log(d, "Terraform succeeded!") EXCEPT !.pc = "exhausted"]

\* returncode == 0: log the success and return True
OnSuccess(d) == Return(Log(d, "Terraform succeeded!"), TRUE)

\* OnTimeout that waits retry_delay before the next attempt
OnTimeout_Sleeps(d) ==
    [Log(d, "Terraform apply timed out. Retrying...")
         EXCEPT !.trace = Append(@, Event("sleep", d.attempt, "")),
                !.attempt = @ + 1, !.pc = "loop"]

\* except subprocess.TimeoutExpired: log, attempt += 1, continue
OnTimeout(d) ==
    [Log(d, "Terraform apply timed out. Retrying...")
         EXCEPT !.attempt = @ + 1, !.pc = "loop"]

\* subprocess.run(cmd, ...) and what follows it directly: the return on exit
\* code 0, the handler of TimeoutExpired, the entry into the other handlers.
RunCommand(d, out) ==
    LET tag == CASE out.kind = "timeout" -> "timeout"
                 [] out.kind = "error" -> "error"
                 [] out.returncode = 0 -> "ok"
                 [] OTHER -> IF out.marked THEN "marked" ELSE "unmarked"
        ran == [d EXCEPT !.trace = Append(@, Event(Operation(d), d.attempt, tag))]
    IN  CASE out.kind = "timeout" -> OnTimeout(ran)
          [] out.kind = "error" -> [ran EXCEPT !.pc = "except"]
          [] out.returncode = 0 -> OnSuccess(ran)
          [] OTHER ->
               [Log(ran, "Terraform failed") EXCEPT
                    !.result = [returncode |-> out.returncode, stderr |-> out.stderr],
                    !.pc = "failed"]

\* AfterFailure that classifies the error without cleaning up first
AfterFailure_SkipsCleanup(d, destroy) ==
    IF d.plan_only THEN Return(d, FALSE) ELSE [d EXCEPT !.pc = "classify"]

\* AfterFailure without the plan-only return
AfterFailure_NoPlanCheck(d, destroy) ==
    IF ~d.no_cleanup
    THEN LET c == cleanup_resources(d, destroy) IN
         IF c.exc THEN [c EXCEPT !.pc = "except"] ELSE [c EXCEPT !.pc = "classify"]
    ELSE [d EXCEPT !.pc = "classify"]

\* After a non-zero exit: plan-only returns, otherwise the cleanup runs unless disabled.
AfterFailure(d, destroy) ==
    IF d.plan_only THEN Return(d, FALSE)
    ELSE IF ~d.no_cleanup
         THEN LET c == cleanup_resources(d, destroy) IN
              IF c.exc THEN [c EXCEPT !.pc = "except"] ELSE [c EXCEPT !.pc = "classify"]
         ELSE [d EXCEPT !.pc = "classify"]

\* time.sleep(retry_delay)
Sleep(d) == [d EXCEPT !.trace = Append(@, Event("sleep", d.attempt, ""))]

\* The classification of the error stream; result is dead afterwards.
Classify(d) ==
    LET done == [d EXCEPT !.result = [returncode |-> 0, stderr |-> <<>>]] IN
    IF IsRecoverable(d.result.stderr)
    THEN IF d.attempt < d.max_attempts
         THEN [Sleep(Log(done, "Detected recoverable error (host capacity). Retrying"))
                   EXCEPT !.attempt = @ + 1, !.pc = "loop"]
         ELSE Return(Log(done, "Detected recoverable error but no more attempts available."), FALSE)
    ELSE Return(Log(done, "Non-recoverable error detected. Stopping retries."), FALSE)

\* Except with the cleanup guarded by no_cleanup alone
Except_CleansInPlanMode(d, destroy) ==
    LET logged == [Log(d, "Unexpected error running terraform") EXCEPT !.exc = FALSE] IN
    IF ~d.no_cleanup
    THEN Return(cleanup_resources(logged, destroy), FALSE)
    ELSE Return(logged, FALSE)

\* except Exception: the handler of an unexpected error of subprocess.run
Except(d, destroy) ==
    LET logged == [Log(d, "Unexpected error running terraform") EXCEPT !.exc = FALSE] IN
    IF ~d.plan_only /\ ~d.no_cleanup
    THEN LET c == cleanup_resources(logged, destroy) IN
         IF c.exc THEN [c EXCEPT !.pc = "crashed"] ELSE Return(c, FALSE)
    ELSE Return(logged, FALSE)

\* Exhausted without the final cleanup
Exhausted_NoCleanup(d, destroy) == Return(Log(d, "Maximum attempts exceeded."), FALSE)

\* Exhausted with the final cleanup guarded by plan_only alone
Exhausted_IgnoresNoCleanup(d, destroy) ==
    LET logged == Log(d, "Maximum attempts exceeded.") IN
    IF ~d.plan_only
    THEN Return(cleanup_resources(logged, destroy), FALSE)
    ELSE Return(logged, FALSE)

\* After the loop: all attempts are used up.
Exhausted(d, destroy) ==
    LET logged == Log(d, "Maximum attempts exceeded.") IN
    IF ~d.plan_only /\ ~d.no_cleanup
    THEN LET c == cleanup_resources(logged, destroy) IN
         IF c.exc THEN [c EXCEPT !.pc = "crashed"] ELSE Return(c, FALSE)
    ELSE Return(logged, FALSE)

\* One step of the driver, by its position.
Step(d, out, destroy) ==
    CASE d.pc = "entry"     -> Entry(d)
      [] d.pc = "loop"      -> LoopHead(d)
      [] d.pc = "run"       -> RunCommand(d, out)
      [] d.pc = "failed"    -> AfterFailure(d, destroy)
      [] d.pc = "classify"  -> Classify(d)
      [] d.pc = "except"    -> Except(d, destroy)
      [] d.pc = "exhausted" -> Exhausted(d, destroy)
      [] OTHER              -> d

----------------------------------------------------------------------------
\* main: the command line, the choice of the zone list, the call of the driver
\* and the exit status.

\* args.availability_domains when the option is not given
None == <<>>

\* The command lines: --availability-domains takes one or more values (nargs='+').
ArgSets ==
    [ quiet : BOOLEAN, verbose : BOOLEAN,
      availability_domains : ZoneLists \cup {None},
      max_attempts : (-1)..MaxAttempts,
      no_cleanup : BOOLEAN, plan_only : BOOLEAN ]

\* parser.error(...) ends the process with argparse's usage-error status
ParserErrorStatus == 2

MsgUsage == "error: --quiet and --verbose cannot be used together"
MsgNoZones == "Please either provide --availability-domains or set availability_domain in terraform.tfvars"
MsgUnreadable == "Could not read availability_domain from terraform.tfvars"
MsgSuccess == "Script completed successfully!"
MsgFailed == "Script failed! All resources have been cleaned up."
MsgTraceback == "Traceback (most recent call last)"

\* The end of the process: [status, line], the exit status and the last line written.
Exit(status, line) == [exits |-> TRUE, status |-> status, line |-> line]
Continue == [exits |-> FALSE, status |-> 0, line |-> ""]

\* The conflicting verbosity options
CheckVerbosity(a) ==
    IF a.quiet /\ a.verbose THEN Exit(ParserErrorStatus, MsgUsage) ELSE Continue

\* The zone list main passes to the driver, or the exit when there is none.
ZoneChoice(a, d) ==
    LET ad_in_tfvars == check_availability_domain_in_tfvars(d) IN
    IF a.availability_domains = None /\ ~ad_in_tfvars
    THEN [end |-> Exit(1, MsgNoZones), zones |-> <<>>]
    ELSE IF a.availability_domains # None
         THEN [end |-> Continue, zones |-> a.availability_domains]
         ELSE LET match == re_search(d.tfvars.text) IN
              IF match # 0
              THEN [end |-> Continue, zones |-> <<Group1(d.tfvars.text, match)>>]
              ELSE [end |-> Exit(1, MsgUnreadable), zones |-> <<>>]

\* The call run_terraform_apply(config_dir, max_attempts, ..., availability_domains, ...)
Call(d, a, zones) ==
    [d EXCEPT !.pc = "entry", !.max_attempts = a.max_attempts,
              !.availability_domains = zones,
              !.no_cleanup = a.no_cleanup, !.plan_only = a.plan_only]

\* Outcome that exits 0 whatever the driver returned
Outcome_AlwaysZero(d) == Exit(0, MsgSuccess)

\* After the driver: success exits 0, failure exits 1; an exception that leaves
\* the driver ends the process with a traceback and status 1.
Outcome(d) ==
    IF d.pc = "crashed" THEN Exit(1, MsgTraceback)
    ELSE IF d.ret THEN Exit(0, MsgSuccess) ELSE Exit(1, MsgFailed)

----------------------------------------------------------------------------
\* The state machine.

Init ==
    /\ args \in ArgSets
    /\ run \in {Idle(disk) : disk \in Disks}
    /\ twin = run
    /\ mpc = "parse"
    /\ exit_code = -1
    /\ final_log = ""

Terminate(end) ==
    /\ mpc' = "exited"
    /\ exit_code' = end.status
    /\ final_log' = end.line

ParseArgs ==
    /\ mpc = "parse"
    /\ LET end == CheckVerbosity(args) IN
       IF end.exits THEN Terminate(end)
       ELSE mpc' = "zones" /\ UNCHANGED <<exit_code, final_log>>
    /\ UNCHANGED <<args, run, twin>>

ChooseZones ==
    /\ mpc = "zones"
    /\ LET choice == ZoneChoice(args, run) IN
       IF choice.end.exits
       THEN Terminate(choice.end) /\ UNCHANGED <<run, twin>>
       ELSE /\ run' = Call(run, args, choice.zones)
            /\ twin' = run'
            /\ mpc' = "driver"
            /\ UNCHANGED <<exit_code, final_log>>
    /\ UNCHANGED args

Driver(pc) == mpc = "driver" /\ run.pc = pc /\ UNCHANGED <<args, mpc, exit_code, final_log, twin>>

EnterDriver == Driver("entry") /\ run' = Entry(run)

StartAttempt == Driver("loop") /\ run' = LoopHead(run)

RunTerraform == Driver("run") /\ \E out \in ApplyOutcomes : run' = RunCommand(run, out)

HandleFailure == Driver("failed") /\ \E destroy \in DestroyOutcomes : run' = AfterFailure(run, destroy)

ClassifyError == Driver("classify") /\ run' = Classify(run)

HandleException == Driver("except") /\ \E destroy \in DestroyOutcomes : run' = Except(run, destroy)

AttemptsExhausted == Driver("exhausted") /\ \E destroy \in DestroyOutcomes : run' = Exhausted(run, destroy)

Finish ==
    /\ mpc = "driver"
    /\ run.pc \in {"returned", "crashed"}
    /\ Terminate(Outcome(run))
    /\ UNCHANGED <<args, run, twin>>

Next ==
    \/ ParseArgs
    \/ ChooseZones
    \/ EnterDriver
    \/ StartAttempt
    \/ RunTerraform
    \/ HandleFailure
    \/ ClassifyError
    \/ HandleException
    \/ AttemptsExhausted
    \/ Finish

Spec == Init /\ [][Next]_vars

\* Two runs of the driver side by side: the same call, the same outcome of every
\* apply/plan command, and destroy outcomes chosen independently.
\* The outcomes a step can consume: only the step that runs a command has a choice.
ApplyInputs(d1, d2) ==
    IF d1.pc = "run" \/ d2.pc = "run" THEN ApplyOutcomes
    ELSE {Completed(0, [text |-> <<>>, marked |-> FALSE])}
DestroyInputs(d) ==
    IF d.pc \in {"failed", "except", "exhausted"} THEN DestroyOutcomes ELSE {"ok"}

PairStep ==
    /\ mpc = "driver"
    /\ run.pc \notin {"returned", "crashed"} \/ twin.pc \notin {"returned", "crashed"}
    /\ \E out \in ApplyInputs(run, twin) :
          \E destroy1 \in DestroyInputs(run), destroy2 \in DestroyInputs(twin) :
             /\ run' = Step(run, out, destroy1)
             /\ twin' = Step(twin, out, destroy2)
    /\ UNCHANGED <<args, mpc, exit_code, final_log>>

NextPair == ParseArgs \/ ChooseZones \/ PairStep \/ Finish

\* The pairs start from the command lines without verbosity options and from
\* three of the configuration directories.
InitPair ==
    /\ Init
    /\ ~args.quiet /\ ~args.verbose
    /\ run \in { Idle(Disk(FALSE, Absent, Absent)),
                 Idle(Disk(TRUE, File(TfvarsPlain), Absent)),
                 Idle(Disk(TRUE, File(TfvarsNoKey), File(MainTfKey))) }

SpecPair == InitPair /\ [][NextPair]_vars

\* The driver is called from the command lines that pass the verbosity check.
InitDriver == Init /\ ~args.quiet /\ ~args.verbose

\* The program is sequential and every call of subprocess.run returns, times out
\* or raises, so a step that can be taken is taken: weak fairness of Next. A step
\* exists from every state but the exited ones and every step changes mpc or
\* run.pc, so ENABLED <<Next>>_vars is mpc # "exited" and WF_vars(Next) reads
FairSpec ==
    /\ InitDriver /\ [][Next]_vars
    /\ ([]<>(mpc = "exited") \/ []<><<Next>>_vars)

----------------------------------------------------------------------------
\* Vocabulary of the properties.

IsInvocation(e) == e.op \in {"apply", "plan"}

IsFailure(e) == IsInvocation(e) /\ e.tag \in {"marked", "unmarked"}

\* The positions of the trace that hold an event of the given kind
Positions(tr, op) == {i \in 1..Len(tr) : tr[i].op = op}

InvocationPositions(tr) == {i \in 1..Len(tr) : IsInvocation(tr[i])}

\* The failure at position i is the latest invocation and the driver has not yet
\* acted on its error stream.
Pending(d, i) ==
    /\ d.pc \in {"failed", "classify"}
    /\ \A k \in (i + 1)..Len(d.trace) : ~IsInvocation(d.trace[k])

\* The position right after the cleanup (if any) that follows the failure at i
AfterCleanup(d, i) == IF d.no_cleanup THEN i + 1 ELSE i + 2

----------------------------------------------------------------------------
\* C1: every attempt N the driver starts edits the files for zone
\* zones[(N-1) mod L]: the k-th edit belongs to attempt k, attempt numbers stay
\* within 1..max_attempts, and the zone handed to the editor for attempt N is the
\* entry at index (N-1) mod L of the zone list (counted from 0).
C1_RoundRobin ==
    LET zones == run.availability_domains
        edits == Positions(run.trace, "edit")
    IN  /\ Cardinality(edits) = Len(run.zones_used)
        /\ \A i \in edits :
              LET N == run.trace[i].n IN
              /\ N \in 1..run.max_attempts
              /\ Cardinality({j \in edits : j <= i}) = N
              /\ run.zones_used[N] = zones[((N - 1) % Len(zones)) + 1]

\* A run over three zones whose fourth attempt is back at the first zone, after a
\* recoverable failure and a timeout among the earlier attempts.
C1_Witness ==
    /\ Len(run.availability_domains) = 3
    /\ Len(run.zones_used) = 4
    /\ run.zones_used = <<Zone(1), Zone(2), Zone(3), Zone(1)>>
    /\ \E i, j \in 1..Len(run.trace) :
          run.trace[i].tag = "marked" /\ run.trace[j].tag = "timeout"

\* C2: an apply/plan command that exits with code 0 is the last thing the driver
\* does: it is the last event of the trace (no later command, destroy or sleep)
\* and the driver has returned true, whatever the remaining attempts.
C2_SuccessReturns ==
    \A i \in 1..Len(run.trace) :
        (IsInvocation(run.trace[i]) /\ run.trace[i].tag = "ok")
        => /\ i = Len(run.trace)
           /\ run.pc = "returned"
           /\ run.ret = TRUE

\* Success on the second of four attempts.
C2_Witness ==
    /\ run.pc = "returned" /\ run.ret
    /\ run.attempt = 2 /\ run.max_attempts = 4
    /\ run.trace[Len(run.trace)].tag = "ok"

C4_NonRecoverableStops ==
    \A i \in 1..Len(run.trace) :
        LET e == run.trace[i] IN
        (IsInvocation(e) /\ e.tag = "unmarked")
        => /\ \A k \in (i + 1)..Len(run.trace) : run.trace[k].op = "destroy"
           /\ Pending(run, i) \/ (run.pc = "returned" /\ run.ret = FALSE)
           /\ e.n = 1 => Cardinality(InvocationPositions(run.trace)) = 1

\* 'quota exceeded' (or another unmarked stream) on attempt 1 of 4, driver returned.
C4_Witness ==
    /\ run.pc = "returned" /\ ~run.ret
    /\ run.max_attempts = 4 /\ run.attempt = 1
    /\ ~run.plan_only
    /\ \E i \in 1..Len(run.trace) : run.trace[i].tag = "unmarked"

\* C5: with no_cleanup set the trace never holds a destroy command.
C5_NoCleanupNoDestroy ==
    run.no_cleanup => Positions(run.trace, "destroy") = {}

\* no_cleanup, apply mode, all attempts used up and the driver returned.
C5_Witness ==
    /\ run.no_cleanup /\ ~run.plan_only
    /\ run.pc = "returned"
    /\ run.max_attempts >= 2 /\ run.attempt > run.max_attempts

\* C6: with plan_only set, a plan command that exits non-zero is the last event
\* of the run (no destroy, no sleep, no further plan) and the driver returns
\* false, also when the error stream holds a marker and attempts remain.
C6_PlanFailureReturns ==
    \A i \in 1..Len(run.trace) :
        (run.plan_only /\ IsFailure(run.trace[i]))
        => /\ i = Len(run.trace)
           /\ run.pc = "failed" \/ (run.pc = "returned" /\ run.ret = FALSE)

\* A plan that failed with a recoverable marker on attempt 1 of 4.
C6_Witness ==
    /\ run.plan_only /\ run.pc = "returned" /\ ~run.ret
    /\ run.attempt = 1 /\ run.max_attempts = 4
    /\ run.trace[Len(run.trace)] = Event("plan", 1, "marked")

\* C7: when the driver has returned false and the process has ended, the exit
\* status is non-zero and the final log line says that the resources have been
\* cleaned up exactly when a destroy command ran.
C7_FinalLogTruthful ==
    (mpc = "exited" /\ run.pc = "returned" /\ ~run.ret)
    => /\ exit_code # 0
       /\ (final_log = MsgFailed) <=> (Positions(run.trace, "destroy") # {})

\* What a run shows of itself apart from the destroy outcomes: the return value,
\* the apply/plan commands with their attempts, the zones used and the sleeps.
Observable(d) ==
    [ ret |-> d.ret,
      zones_used |-> d.zones_used,
      commands |-> SelectSeq(d.trace, IsInvocation),
      sleeps |-> SelectSeq(d.trace, LAMBDA e : e.op = "sleep") ]

\* C8: two runs of the driver with the same call and the same apply/plan
\* outcomes but independently chosen destroy outcomes never differ in what they
\* show: at every step they agree on position, attempt, return value, commands,
\* zones and sleeps, and no error of the destroy command reaches the driver.
C8_DestroyOutcomeIgnored ==
    /\ ~run.exc /\ ~twin.exc
    /\ run.pc # "crashed" /\ twin.pc # "crashed"
    /\ run.pc = twin.pc /\ run.attempt = twin.attempt
    /\ Observable(run) = Observable(twin)

\* Both runs returned after a destroy that ended differently in each.
C8_Witness ==
    /\ run.pc = "returned" /\ twin.pc = "returned"
    /\ Positions(run.trace, "destroy") # {}
    /\ run.log = "Successfully cleaned up all resources"
    /\ twin.log = "Unexpected error during resource cleanup"

\* C9 as stated: the exit status is 0 when the driver returned true and 1 in
\* every other case, the conflicting verbosity options included.
C9_Original ==
    mpc = "exited"
    => exit_code = IF run.pc = "returned" /\ run.ret THEN 0 ELSE 1

\* C9, amended: the exit status is 2 when --quiet and --verbose are given
\* together (the driver is not called), 0 when the driver returned true, and 1
\* when the driver returned false or no zone list could be determined.
C9_ExitStatus ==
    mpc = "exited"
    => IF args.quiet /\ args.verbose
       THEN exit_code = 2 /\ run.pc = "idle"
       ELSE IF run.pc = "returned" /\ run.ret
            THEN exit_code = 0
            ELSE exit_code = 1 /\ run.pc \in {"returned", "idle"}

\* The process ended on the conflicting verbosity options.
C9_Witness ==
    mpc = "exited" /\ args.quiet /\ args.verbose /\ exit_code = 2

\* The lines of a text
RECURSIVE SplitLines(_)
SplitLines(text) ==
    IF text = <<>> THEN <<>>
    ELSE LET ends == {i \in 1..Len(text) : text[i] = "\n"} \cup {Len(text) + 1}
             n == CHOOSE i \in ends : \A j \in ends : i <= j
         IN  <<SubSeq(text, 1, n - 1)>> \o SplitLines(SubSeq(text, n + 1, Len(text)))

\* A line that assigns the zone key: indentation, the key itself, '=', a quoted value
IsZoneKeyLine(line) ==
    LET p == SkipSpace(line, 1) IN
    /\ p <= Len(line)
    /\ MatchQuote(line, p) > 0
    /\ SkipSpace(line, MatchClose(line, p) + 1) > Len(line)

ZoneKeyValue(line) == Group1(line, SkipSpace(line, 1))

\* new is old with the value of every zone-key line set to zone and nothing else changed
OnlyZoneValueChanged(old, new, zone) ==
    LET lo == SplitLines(old)
        ln == SplitLines(new)
    IN  /\ Len(ln) = Len(lo)
        /\ \A i \in 1..Len(lo) :
              IF IsZoneKeyLine(lo[i])
              THEN IsZoneKeyLine(ln[i]) /\ ZoneKeyValue(ln[i]) = zone
              ELSE ln[i] = lo[i]

\* C10: when the variables file holds a zone-key assignment line, the edit of an
\* attempt leaves that line's quoted value equal to the attempt's zone and every
\* other line of the file as it was, lines of keys that merely end in
\* availability_domain included.
C10_OnlyZoneValueChanges ==
    [][ ( /\ run.pc = "loop" /\ run'.pc = "run"
          /\ run.tfvars.exists
          /\ \E i \in 1..Len(SplitLines(run.tfvars.text)) :
                IsZoneKeyLine(SplitLines(run.tfvars.text)[i]) )
        => OnlyZoneValueChanged(run.tfvars.text, run'.tfvars.text, run'.current_ad) ]_vars

\* The text holds a line that assigns the zone key
HasZoneKeyLine(text) ==
    \E i \in 1..Len(SplitLines(text)) : IsZoneKeyLine(SplitLines(text)[i])

\* C11: when the variables file exists and holds a zone-key assignment line
\* (also one whose value already is the attempt's zone), the edit of an attempt
\* leaves the legacy main config file as it was.
C11_LegacyOnlyAsFallback ==
    [][ ( /\ run.pc = "loop" /\ run'.pc = "run"
          /\ run.tfvars.exists
          /\ HasZoneKeyLine(run.tfvars.text) )
        => run'.main_tf = run.main_tf ]_vars

\* C12: an apply/plan command of attempt N that exceeds its time limit is
\* followed directly by the edit and the command of attempt N+1, with no sleep
\* and no destroy in between; a destroy follows a timeout only when N was the
\* last attempt, and then the driver returns false.
C12_TimeoutAdvances ==
    \A i \in 1..Len(run.trace) :
        LET e == run.trace[i] IN
        (IsInvocation(e) /\ e.tag = "timeout")
        => IF Len(run.trace) = i
           THEN \/ run.pc \in {"loop", "exhausted"} /\ run.attempt = e.n + 1
                \/ /\ run.pc = "returned" /\ run.ret = FALSE
                   /\ e.n = run.max_attempts
                   /\ run.plan_only \/ run.no_cleanup
           ELSE IF e.n < run.max_attempts
                THEN /\ run.trace[i + 1].op = "edit" /\ run.trace[i + 1].n = e.n + 1
                     /\ Len(run.trace) > i + 1
                        => IsInvocation(run.trace[i + 2]) /\ run.trace[i + 2].n = e.n + 1
                ELSE /\ run.trace[i + 1].op = "destroy"
                     /\ Len(run.trace) = i + 1
                     /\ run.pc = "returned" /\ run.ret = FALSE

\* Attempt 1 timed out and the command of attempt 2 has run, cleanup enabled.
C12_Witness ==
    /\ ~run.no_cleanup /\ ~run.plan_only
    /\ Len(run.trace) >= 4
    /\ run.trace[2] = Event("apply", 1, "timeout")
    /\ IsInvocation(run.trace[4]) /\ run.trace[4].n = 2

\* The position of the last apply/plan command of the trace, 0 when there is none
LastInvocation(tr) ==
    IF InvocationPositions(tr) = {} THEN 0
    ELSE CHOOSE i \in InvocationPositions(tr) : \A j \in InvocationPositions(tr) : j <= i

\* C13: in apply mode with cleanup enabled and max_attempts >= 1, when the
\* driver has returned false after the last of its max_attempts attempts ended
\* in a recoverable failure or in a timeout, exactly one destroy command lies
\* between the last apply command and the return.
C13_OneFinalDestroy ==
    LET last == LastInvocation(run.trace) IN
    ( /\ run.pc = "returned" /\ run.ret = FALSE
      /\ ~run.plan_only /\ ~run.no_cleanup
      /\ run.max_attempts >= 1
      /\ last > 0
      /\ run.trace[last].n = run.max_attempts
      /\ run.trace[last].tag \in {"marked", "timeout"} )
    => Cardinality({k \in Positions(run.trace, "destroy") : k > last}) = 1

\* Three attempts used up, the last one timed out, the driver returned.
C13_Witness ==
    LET last == LastInvocation(run.trace) IN
    /\ run.pc = "returned" /\ ~run.ret
    /\ ~run.plan_only /\ ~run.no_cleanup
    /\ run.max_attempts = 3
    /\ last > 0
    /\ run.trace[last] = Event("apply", 3, "timeout")
    /\ \E i \in 1..last : run.trace[i].tag = "marked"

C15_UnexpectedErrorAborts ==
    \A i \in 1..Len(run.trace) :
        (IsInvocation(run.trace[i]) /\ run.trace[i].tag = "error")
        => IF run.pc = "except"
           THEN Len(run.trace) = i
           ELSE /\ run.pc = "returned" /\ run.ret = FALSE
                /\ IF ~run.plan_only /\ ~run.no_cleanup
                   THEN Len(run.trace) = i + 1 /\ run.trace[i + 1].op = "destroy"
                   ELSE Len(run.trace) = i

\* The command of attempt 2 of 4 failed to execute: returned after one destroy.
C15_Witness ==
    /\ run.pc = "returned" /\ ~run.ret
    /\ run.max_attempts = 4
    /\ Len(run.trace) > 1
    /\ run.trace[Len(run.trace) - 1] = Event("apply", 2, "error")
    /\ run.trace[Len(run.trace)].op = "destroy"

\* The attempt numbers of the apply/plan commands, in the order they ran
InvocationAttempts(tr) ==
    LET inv == SelectSeq(tr, IsInvocation) IN [i \in 1..Len(inv) |-> inv[i].n]

\* Every apply/plan command ran under an attempt number within 1..max_attempts
\* and the numbers strictly increase from one command to the next.
AttemptsInOrder ==
    LET ns == InvocationAttempts(run.trace) IN
    /\ \A i \in 1..Len(ns) : ns[i] \in 1..run.max_attempts
    /\ \A i \in 1..(Len(ns) - 1) : ns[i] < ns[i + 1]

\* C16 as stated, its budget part: once called, the driver has made at most
\* max_attempts apply/plan commands, for every max_attempts.
C16_Original ==
    run.pc # "idle" => Cardinality(InvocationPositions(run.trace)) <= run.max_attempts

\* C16, amended: once called, the driver returns (a boolean: it does not end in
\* an uncaught error); it makes at most max_attempts apply/plan commands when
\* max_attempts >= 0 and none when max_attempts < 0; the attempt number of every
\* command lies within 1..max_attempts and the numbers strictly increase.
C16_Terminates ==
    /\ [](/\ run.pc # "crashed"
          /\ AttemptsInOrder
          /\ Cardinality(InvocationPositions(run.trace))
                <= (IF run.max_attempts >= 0 THEN run.max_attempts ELSE 0))
    /\ (mpc = "driver") ~> (run.pc = "returned" /\ run.ret \in BOOLEAN)

\* All four attempts of a run were used: two recoverable failures, two timeouts.
C16_Witness ==
    /\ run.pc = "returned"
    /\ run.max_attempts = 4
    /\ InvocationAttempts(run.trace) = <<1, 2, 3, 4>>
    /\ Cardinality({i \in 1..Len(run.trace) : run.trace[i].tag = "timeout"}) = 2
    /\ Cardinality({i \in 1..Len(run.trace) : run.trace[i].tag = "marked"}) = 2

\* The first quoted value a zone-key match finds in terraform.tfvars as it was
\* when main started, as a list: empty when the file is absent or has no match.
TfvarsZone ==
    IF twin.tfvars.exists /\ re_search(twin.tfvars.text) # 0
    THEN <<Group1(twin.tfvars.text, re_search(twin.tfvars.text))>>
    ELSE <<>>

\* C17: whenever main has called the driver, the zone list it passed is
\* non-empty: it is the --availability-domains list when that was given, and
\* otherwise the one non-blank value read from terraform.tfvars; the zone
\* selection never fails on an empty list. When no list was given and
\* terraform.tfvars holds no non-blank value, the driver is never called and no
\* command has run.
C17_ZoneListNonEmpty ==
    /\ run.pc # "idle"
         => /\ Len(run.availability_domains) > 0
            /\ run.pc # "crashed"
            /\ IF args.availability_domains # None
               THEN run.availability_domains = args.availability_domains
               ELSE /\ run.availability_domains = TfvarsZone
                    /\ NonBlank(run.availability_domains[1])
    /\ ( /\ args.availability_domains = None
         /\ \A i \in 1..Len(TfvarsZone) : ~NonBlank(TfvarsZone[i]) )
         => run.pc = "idle" /\ run.trace = <<>>

\* The driver ran commands on the single zone read from terraform.tfvars.
C17_Witness ==
    /\ args.availability_domains = None
    /\ run.pc = "returned"
    /\ \E i \in 1..Len(run.trace) : IsInvocation(run.trace[i])
    /\ run.availability_domains = <<OldValue>>
    /\ run.zones_used = <<OldValue, OldValue>>

\* No list was given and the value in terraform.tfvars is blank: main exited with
\* status 1 and the driver was not called.
C17_WitnessNoZone ==
    /\ args.availability_domains = None
    /\ TfvarsZone # <<>> /\ ~NonBlank(TfvarsZone[1])
    /\ mpc = "exited" /\ exit_code = 1 /\ run.pc = "idle"

\* C18: a destroy command runs only after at least one apply command of the same
\* run: destroy is never the first command the driver runs.
C18_ApplyBeforeDestroy ==
    \A i \in 1..Len(run.trace) :
        run.trace[i].op = "destroy"
        => \E j \in 1..(i - 1) : run.trace[j].op = "apply"

\* Every zone-key line of the text holds the zone as its quoted value
ZoneKeyLinesHold(text, zone) ==
    \A i \in 1..Len(SplitLines(text)) :
        IsZoneKeyLine(SplitLines(text)[i]) => ZoneKeyValue(SplitLines(text)[i]) = zone

\* C19: when an apply/plan command of attempt N is about to run, the zone-key
\* line of the variables file, or that of the legacy main config file when the
\* variables file is absent or has no zone-key line, holds the zone of attempt N,
\* zones[(N-1) mod L], as its quoted value; and every apply/plan command comes
\* directly after the edit of the same attempt.
C19_ZoneWrittenAtInvocation ==
    /\ run.pc = "run"
         => LET zone == run.availability_domains[
                            ((run.attempt - 1) % Len(run.availability_domains)) + 1]
            IN  IF run.tfvars.exists /\ HasZoneKeyLine(run.tfvars.text)
                THEN ZoneKeyLinesHold(run.tfvars.text, zone)
                ELSE run.main_tf.exists => ZoneKeyLinesHold(run.main_tf.text, zone)
    /\ \A i \in 1..Len(run.trace) :
          IsInvocation(run.trace[i])
          => /\ i > 1
             /\ run.trace[i - 1].op = "edit"
             /\ run.trace[i - 1].n = run.trace[i].n

\* C20: once the driver has returned, it has returned true exactly when the
\* last apply/plan command of the run exited with code 0; it never ends in an
\* uncaught error; and with the configuration directory missing it has returned
\* false with no file edited and no command run.
C20_TrueOnlyOnSuccess ==
    /\ run.pc # "crashed"
    /\ run.pc = "returned"
         => /\ run.ret <=> /\ LastInvocation(run.trace) # 0
                           /\ run.trace[LastInvocation(run.trace)].tag = "ok"
            /\ ~run.dir_exists
                 => /\ run.ret = FALSE
                    /\ run.trace = <<>>
                    /\ run.tfvars = twin.tfvars /\ run.main_tf = twin.main_tf

\* True after a failed first attempt: the second command exited with code 0.
C20_Witness ==
    /\ run.pc = "returned" /\ run.ret = TRUE
    /\ Cardinality(InvocationPositions(run.trace)) = 2
    /\ IsFailure(run.trace[2])
    /\ LastInvocation(run.trace) = Len(run.trace)

\* The configuration directory is missing: false, and nothing has run.
C20_WitnessNoDirectory ==
    run.pc = "returned" /\ ~run.dir_exists /\ run.ret = FALSE /\ run.trace = <<>>

====
